---- MODULE Spec2Model ----
(***************************************************************************)
(* Model of postgres-protocol/src/replication: the pgoutput logical        *)
(* replication message decoder (pgoutput.rs) and the decoding plugin       *)
(* configuration (PgOutput).                                               *)
(*                                                                         *)
(* A byte is an integer 0..255, a buffer (Bytes) is a sequence of bytes.   *)
(* The reader BufReader<Bytes> is modelled by the bytes that remain in it: *)
(* every read takes bytes from the front.  A read returns a record         *)
(*   [st, val, rest, tag, text]                                            *)
(* st = "Ok" | "InvalidInput" | "UnexpectedEof" | "Panic"; rest is the     *)
(* reader after the call; tag and text are the offending byte and the      *)
(* format string of an io::Error.                                          *)
(***************************************************************************)
EXTENDS Integers, Sequences, FiniteSets, TLC

VARIABLES wire, cut, trail, payload, pc, result, accessed,
          names, plugin, last_name, last_options, calls

vars == <<wire, cut, trail, payload, pc, result, accessed,
          names, plugin, last_name, last_options, calls>>

decoderVars == <<wire, cut, trail, payload, pc, result, accessed>>
pluginVars == <<names, plugin, last_name, last_options, calls>>

----------------------------------------------------------------------------
(* Bounds of the model *)

MaxCols == 2
MaxTrail == 1
MaxRelIds == 2
MaxNames == 2
MaxCalls == 2

----------------------------------------------------------------------------
(* Message tags, pgoutput.rs:42-63 *)

BEGIN_TAG == 66
COMMIT_TAG == 67
ORIGIN_TAG == 79
RELATION_TAG == 82
TYPE_TAG == 89
INSERT_TAG == 73
UPDATE_TAG == 85
DELETE_TAG == 68
TRUNCATE_TAG == 84
TUPLE_NEW_TAG == 78
TUPLE_KEY_TAG == 75
TUPLE_OLD_TAG == 79
TUPLE_DATA_NULL_TAG == 110
TUPLE_DATA_TOAST_TAG == 117
TUPLE_DATA_TEXT_TAG == 116
REPLICA_IDENTITY_DEFAULT_TAG == 100
REPLICA_IDENTITY_NOTHING_TAG == 110
REPLICA_IDENTITY_FULL_TAG == 102
REPLICA_IDENTITY_INDEX_TAG == 105

----------------------------------------------------------------------------
(* Results of a read *)

NoMsg == [type |-> "None"]

Ok(v, rest) == [st |-> "Ok", val |-> v, rest |-> rest, tag |-> -1, text |-> ""]

Err(kind, text, tag, rest) ==
    [st |-> kind, val |-> NoMsg, rest |-> rest, tag |-> tag, text |-> text]

Drop(buf, n) == SubSeq(buf, n + 1, Len(buf))

\* the `?` of the source: an error (or a panic) of r ends the function with
\* r, a value goes on into the rest of the function, K
Try(r, K(_)) == IF r.st # "Ok" THEN r ELSE K(r)

----------------------------------------------------------------------------
(* Byte cursor: io::Read::read_exact over bytes::buf::Reader, and the      *)
(* byteorder big-endian reads built on it.                                 *)

\* Reader::read copies min(remaining, n) bytes and advances; read_exact
\* fails with UnexpectedEof when a read returns 0 before n bytes are in,
\* after the bytes that were there have been taken.
read_exact(buf, n) ==
    IF Len(buf) >= n
    THEN Ok(SubSeq(buf, 1, n), Drop(buf, n))
    ELSE Err("UnexpectedEof", "failed to fill whole buffer", -1, <<>>)

RECURSIVE BigEndian(_, _)
BigEndian(acc, bytes) ==
    IF bytes = <<>> THEN acc
    ELSE BigEndian(acc * 256 + Head(bytes), Tail(bytes))

Unsigned(bytes) == BigEndian(0, bytes)

Signed(bytes) ==
    BigEndian(IF Head(bytes) >= 128 THEN Head(bytes) - 256 ELSE Head(bytes),
              Tail(bytes))

read_uint(buf, n) ==
    Try(read_exact(buf, n), LAMBDA r : Ok(Unsigned(r.val), r.rest))

read_int(buf, n) ==
    Try(read_exact(buf, n), LAMBDA r : Ok(Signed(r.val), r.rest))

read_u8(buf) == read_uint(buf, 1)
read_i8(buf) == read_int(buf, 1)
read_i16(buf) == read_int(buf, 2)
read_u32(buf) == read_uint(buf, 4)
read_i32(buf) == read_int(buf, 4)
read_u64(buf) == read_uint(buf, 8)
read_i64(buf) == read_int(buf, 8)

\* Bytes::split_to(at): panics when at > len.  The argument is `v as usize`
\* of a signed v: a negative v becomes v + 2^64 (2^32 on a 32-bit target),
\* which is above the length of every buffer.
split_to(buf, v) ==
    IF v < 0 \/ v > Len(buf)
    THEN Err("Panic", "split_to out of bounds", -1, buf)
    ELSE Ok(SubSeq(buf, 1, v), Drop(buf, v))

\* Vec::with_capacity(v as usize): a negative v asks for more than
\* isize::MAX bytes and panics with "capacity overflow".  The counts of the
\* model stay far below what an allocator refuses.
with_capacity(v) == IF v < 0 THEN "Panic" ELSE "Ok"

\* find_null searching from the back (memrchr), the last zero byte
find_null_last(buf, start) ==
    LET zeros == {i \in (start + 1)..Len(buf) : buf[i] = 0}
    IN IF zeros = {}
       THEN Err("UnexpectedEof", "unexpected EOF", -1, buf)
       ELSE Ok((CHOOSE i \in zeros : \A j \in zeros : i >= j) - 1, buf)

\* memchr(0, &buf[start..]): 0-based index of the first zero byte
find_null(buf, start) ==
    LET zeros == {i \in (start + 1)..Len(buf) : buf[i] = 0}
    IN IF zeros = {}
       THEN Err("UnexpectedEof", "unexpected EOF", -1, buf)
       ELSE Ok((CHOOSE i \in zeros : \A j \in zeros : i <= j) - 1, buf)

\* get_cstr returning the bytes before the terminator and skipping it
get_cstr_without_terminator(buf) ==
    Try(find_null(buf, 0), LAMBDA end :
    Ok(SubSeq(buf, 1, end.val), Drop(buf, end.val + 1)))

get_cstr(buf) ==
    Try(find_null(buf, 0), LAMBDA end : split_to(buf, end.val + 1))

----------------------------------------------------------------------------
(* std::str::from_utf8: the well-formed UTF-8 byte sequences *)

Cont(b) == b >= 128 /\ b <= 191

RECURSIVE ValidUtf8(_)
ValidUtf8(s) ==
    IF s = <<>> THEN TRUE
    ELSE LET b == s[1] IN
      IF b <= 127 THEN ValidUtf8(Drop(s, 1))
      ELSE IF b >= 194 /\ b <= 223
        THEN Len(s) >= 2 /\ Cont(s[2]) /\ ValidUtf8(Drop(s, 2))
      ELSE IF b >= 224 /\ b <= 239
        THEN /\ Len(s) >= 3
             /\ Cont(s[2]) /\ Cont(s[3])
             /\ (b = 224 => s[2] >= 160)
             /\ (b = 237 => s[2] <= 159)
             /\ ValidUtf8(Drop(s, 3))
      ELSE IF b >= 240 /\ b <= 244
        THEN /\ Len(s) >= 4
             /\ Cont(s[2]) /\ Cont(s[3]) /\ Cont(s[4])
             /\ (b = 240 => s[2] >= 144)
             /\ (b = 244 => s[2] <= 143)
             /\ ValidUtf8(Drop(s, 4))
      ELSE FALSE

\* the text of a &str is its UTF-8 bytes: get_str returns a view of buf
get_str(buf) ==
    IF ValidUtf8(buf) THEN Ok(buf, <<>>)
    ELSE Err("InvalidInput", "invalid utf-8", -1, <<>>)

----------------------------------------------------------------------------
(* Column, TupleData and Tuple decoders *)

Column_parse_reader(buf) ==
    Try(read_i8(buf), LAMBDA flags :
    Try(get_cstr(flags.rest), LAMBDA name :
    Try(read_i32(name.rest), LAMBDA type_id :
    Try(read_i32(type_id.rest), LAMBDA type_modifier :
    Ok([flags |-> flags.val, name |-> name.val, type_id |-> type_id.val,
        type_modifier |-> type_modifier.val], type_modifier.rest)))))

TupleData_parse_reader(buf) ==
    Try(read_u8(buf), LAMBDA type_tag :
    CASE type_tag.val = TUPLE_DATA_NULL_TAG ->
           Ok([kind |-> "Null", data |-> <<>>], type_tag.rest)
      [] type_tag.val = TUPLE_DATA_TOAST_TAG ->
           Ok([kind |-> "Toast", data |-> <<>>], type_tag.rest)
      [] type_tag.val = TUPLE_DATA_TEXT_TAG ->
           Try(read_i32(type_tag.rest), LAMBDA len :
           Try(split_to(len.rest, len.val), LAMBDA data :
           Ok([kind |-> "Text", data |-> data.val], data.rest)))
      [] OTHER ->
           Err("InvalidInput", "unknown replication message tag",
               type_tag.val, type_tag.rest))

\* for _ in 0..n { v.push(T::parse_reader(buf)?) }
RECURSIVE TupleDataLoop(_, _, _)
TupleDataLoop(buf, n, acc) ==
    IF n <= 0 THEN Ok(acc, buf)
    ELSE Try(TupleData_parse_reader(buf), LAMBDA d :
         TupleDataLoop(d.rest, n - 1, Append(acc, d.val)))

RECURSIVE ColumnLoop(_, _, _)
ColumnLoop(buf, n, acc) ==
    IF n <= 0 THEN Ok(acc, buf)
    ELSE Try(Column_parse_reader(buf), LAMBDA c :
         ColumnLoop(c.rest, n - 1, Append(acc, c.val)))

RECURSIVE RelIdLoop(_, _, _)
RelIdLoop(buf, n, acc) ==
    IF n <= 0 THEN Ok(acc, buf)
    ELSE Try(read_u32(buf), LAMBDA id :
         RelIdLoop(id.rest, n - 1, Append(acc, id.val)))

\* let mut v = Vec::with_capacity(n as usize), with buf the reader then
Allocate(n, buf) ==
    IF with_capacity(n) = "Panic"
    THEN Err("Panic", "capacity overflow", -1, buf)
    ELSE Ok(<<>>, buf)

Tuple_parse_reader(buf) ==
    Try(read_i16(buf), LAMBDA col_len :
    Try(Allocate(col_len.val, col_len.rest), LAMBDA tuple :
    TupleDataLoop(col_len.rest, col_len.val, tuple.val)))

----------------------------------------------------------------------------
(* LogicalReplicationMessage::parse_reader, one operator per match arm.    *)
(* An Option<Tuple> is a sequence of zero (None) or one (Some) tuples.     *)

BeginArm(buf) ==
    Try(read_u64(buf), LAMBDA final_lsn :
    Try(read_i64(final_lsn.rest), LAMBDA timestamp :
    Try(read_i32(timestamp.rest), LAMBDA xid :
    Ok([type |-> "Begin", final_lsn |-> final_lsn.val,
        timestamp |-> timestamp.val, xid |-> xid.val], xid.rest))))

CommitArm(buf) ==
    Try(read_i8(buf), LAMBDA flags :
    Try(read_u64(flags.rest), LAMBDA commit_lsn :
    Try(read_u64(commit_lsn.rest), LAMBDA end_lsn :
    Try(read_i64(end_lsn.rest), LAMBDA timestamp :
    Ok([type |-> "Commit", flags |-> flags.val, commit_lsn |-> commit_lsn.val,
        end_lsn |-> end_lsn.val, timestamp |-> timestamp.val],
       timestamp.rest)))))

OriginArm(buf) ==
    Try(read_u64(buf), LAMBDA commit_lsn :
    Try(get_cstr(commit_lsn.rest), LAMBDA name :
    Ok([type |-> "Origin", commit_lsn |-> commit_lsn.val, name |-> name.val],
       name.rest)))

ReplicaIdentityOf(tag) ==
    CASE tag = REPLICA_IDENTITY_DEFAULT_TAG -> "Default"
      [] tag = REPLICA_IDENTITY_NOTHING_TAG -> "Nothing"
      [] tag = REPLICA_IDENTITY_FULL_TAG -> "Full"
      [] tag = REPLICA_IDENTITY_INDEX_TAG -> "Index"
      [] OTHER -> "unknown"

\* match buf.read_u8()? { ... tag => return Err(..) }
read_replica_identity(buf) ==
    Try(read_u8(buf), LAMBDA tag :
    IF ReplicaIdentityOf(tag.val) = "unknown"
    THEN Err("InvalidInput", "unknown replica identity tag", tag.val, tag.rest)
    ELSE Ok(ReplicaIdentityOf(tag.val), tag.rest))

RelationArm(buf) ==
    Try(read_u32(buf), LAMBDA rel_id :
    Try(get_cstr(rel_id.rest), LAMBDA namespace :
    Try(get_cstr(namespace.rest), LAMBDA name :
    Try(read_replica_identity(name.rest), LAMBDA replica_identity :
    Try(read_i16(replica_identity.rest), LAMBDA column_len :
    Try(Allocate(column_len.val, column_len.rest), LAMBDA vec :
    Try(ColumnLoop(column_len.rest, column_len.val, vec.val), LAMBDA columns :
    Ok([type |-> "Relation", rel_id |-> rel_id.val,
        namespace |-> namespace.val, name |-> name.val,
        replica_identity |-> replica_identity.val, columns |-> columns.val],
       columns.rest))))))))

TypeArm(buf) ==
    Try(read_u32(buf), LAMBDA id :
    Try(get_cstr(id.rest), LAMBDA namespace :
    Try(get_cstr(namespace.rest), LAMBDA name :
    Ok([type |-> "Type", id |-> id.val, namespace |-> namespace.val,
        name |-> name.val], name.rest))))

InsertArm(buf) ==
    Try(read_u32(buf), LAMBDA rel_id :
    Try(read_u8(rel_id.rest), LAMBDA tag :
    IF tag.val = TUPLE_NEW_TAG
    THEN Try(Tuple_parse_reader(tag.rest), LAMBDA tuple :
         Ok([type |-> "Insert", rel_id |-> rel_id.val, tuple |-> tuple.val],
            tuple.rest))
    ELSE Err("InvalidInput", "unexpected tuple tag", tag.val, tag.rest)))

\* the tag behind the old/key tuple read without being checked
UpdateNewTuple_tag_unchecked(buf) ==
    Try(read_u8(buf), LAMBDA tag : Tuple_parse_reader(tag.rest))

\* the inner match of the Update arm: the tag behind the old/key tuple
UpdateNewTuple(buf) ==
    Try(read_u8(buf), LAMBDA tag :
    IF tag.val = TUPLE_NEW_TAG
    THEN Tuple_parse_reader(tag.rest)
    ELSE Err("InvalidInput", "unexpected tuple tag", tag.val, tag.rest))

UpdateArm(buf) ==
    Try(read_u32(buf), LAMBDA rel_id :
    Try(read_u8(rel_id.rest), LAMBDA tag :
    CASE tag.val = TUPLE_NEW_TAG ->
           Try(Tuple_parse_reader(tag.rest), LAMBDA new_tuple :
           Ok([type |-> "Update", rel_id |-> rel_id.val, key_tuple |-> <<>>,
               old_tuple |-> <<>>, new_tuple |-> new_tuple.val],
              new_tuple.rest))
      [] tag.val = TUPLE_OLD_TAG \/ tag.val = TUPLE_KEY_TAG ->
           Try(Tuple_parse_reader(tag.rest), LAMBDA first :
           Try(UpdateNewTuple(first.rest), LAMBDA new_tuple :
           Ok([type |-> "Update", rel_id |-> rel_id.val,
               key_tuple |-> IF tag.val = TUPLE_OLD_TAG THEN <<>>
                             ELSE <<first.val>>,
               old_tuple |-> IF tag.val = TUPLE_OLD_TAG THEN <<first.val>>
                             ELSE <<>>,
               new_tuple |-> new_tuple.val], new_tuple.rest)))
      [] OTHER -> Err("InvalidInput", "unknown tuple tag", tag.val, tag.rest)))

\* the Delete arm taking every tag but `O` as a key tuple
DeleteArm_any_tag_is_key(buf) ==
    Try(read_u32(buf), LAMBDA rel_id :
    Try(read_u8(rel_id.rest), LAMBDA tag :
    Try(Tuple_parse_reader(tag.rest), LAMBDA tuple :
    Ok([type |-> "Delete", rel_id |-> rel_id.val,
        key_tuple |-> IF tag.val = TUPLE_OLD_TAG THEN <<>> ELSE <<tuple.val>>,
        old_tuple |-> IF tag.val = TUPLE_OLD_TAG THEN <<tuple.val>> ELSE <<>>],
       tuple.rest))))

DeleteArm(buf) ==
    Try(read_u32(buf), LAMBDA rel_id :
    Try(read_u8(rel_id.rest), LAMBDA tag :
    CASE tag.val = TUPLE_OLD_TAG ->
           Try(Tuple_parse_reader(tag.rest), LAMBDA old_tuple :
           Ok([type |-> "Delete", rel_id |-> rel_id.val, key_tuple |-> <<>>,
               old_tuple |-> <<old_tuple.val>>], old_tuple.rest))
      [] tag.val = TUPLE_KEY_TAG ->
           Try(Tuple_parse_reader(tag.rest), LAMBDA key_tuple :
           Ok([type |-> "Delete", rel_id |-> rel_id.val,
               key_tuple |-> <<key_tuple.val>>, old_tuple |-> <<>>],
              key_tuple.rest))
      [] OTHER -> Err("InvalidInput", "unknown tuple tag", tag.val, tag.rest)))

\* the Truncate arm reading the options byte before the relation count
TruncateArm_options_first(buf) ==
    Try(read_i8(buf), LAMBDA options :
    Try(read_i32(options.rest), LAMBDA relation_len :
    Try(Allocate(relation_len.val, relation_len.rest), LAMBDA vec :
    Try(RelIdLoop(relation_len.rest, relation_len.val, vec.val), LAMBDA rel_ids :
    Ok([type |-> "Truncate", options |-> options.val, rel_ids |-> rel_ids.val],
       rel_ids.rest)))))

TruncateArm(buf) ==
    Try(read_i32(buf), LAMBDA relation_len :
    Try(read_i8(relation_len.rest), LAMBDA options :
    Try(Allocate(relation_len.val, options.rest), LAMBDA vec :
    Try(RelIdLoop(options.rest, relation_len.val, vec.val), LAMBDA rel_ids :
    Ok([type |-> "Truncate", options |-> options.val, rel_ids |-> rel_ids.val],
       rel_ids.rest)))))

\* the dispatcher with the arm of TYPE_TAG left out
parse_reader_without_type_arm(buf) ==
    Try(read_u8(buf), LAMBDA tag :
    CASE tag.val = BEGIN_TAG -> BeginArm(tag.rest)
      [] tag.val = COMMIT_TAG -> CommitArm(tag.rest)
      [] tag.val = ORIGIN_TAG -> OriginArm(tag.rest)
      [] tag.val = RELATION_TAG -> RelationArm(tag.rest)
      [] tag.val = INSERT_TAG -> InsertArm(tag.rest)
      [] tag.val = UPDATE_TAG -> UpdateArm(tag.rest)
      [] tag.val = DELETE_TAG -> DeleteArm(tag.rest)
      [] tag.val = TRUNCATE_TAG -> TruncateArm(tag.rest)
      [] OTHER -> Err("InvalidInput", "unknown replication message tag",
                      tag.val, tag.rest))

parse_reader(buf) ==
    Try(read_u8(buf), LAMBDA tag :
    CASE tag.val = BEGIN_TAG -> BeginArm(tag.rest)
      [] tag.val = COMMIT_TAG -> CommitArm(tag.rest)
      [] tag.val = ORIGIN_TAG -> OriginArm(tag.rest)
      [] tag.val = RELATION_TAG -> RelationArm(tag.rest)
      [] tag.val = TYPE_TAG -> TypeArm(tag.rest)
      [] tag.val = INSERT_TAG -> InsertArm(tag.rest)
      [] tag.val = UPDATE_TAG -> UpdateArm(tag.rest)
      [] tag.val = DELETE_TAG -> DeleteArm(tag.rest)
      [] tag.val = TRUNCATE_TAG -> TruncateArm(tag.rest)
      [] OTHER -> Err("InvalidInput", "unknown replication message tag",
                      tag.val, tag.rest))

----------------------------------------------------------------------------
(* PgOutput: the structured plugin configuration.  A String is a sequence  *)
(* of characters.                                                          *)

RECURSIVE join(_, _)
join(list, sep) ==
    IF list = <<>> THEN <<>>
    ELSE IF Len(list) = 1 THEN list[1]
    ELSE list[1] \o sep \o join(Tail(list), sep)

\* the constructor joining with ", "
PgOutput_new_comma_space(publications) ==
    [publications |-> join(publications, <<",", " ">>)]

PgOutput_new(publications) == [publications |-> join(publications, <<",">>)]

PgOutput_name(self) == <<"p", "g", "o", "u", "t", "p", "u", "t">>

PgOutput_options(self) ==
    [proto_version |-> <<"1">>, publication_names |-> self.publications]

----------------------------------------------------------------------------
(* Hand-built payloads.  A wire description lists the fields of one        *)
(* payload in the order of the layout table; counts, length prefixes and   *)
(* tags are fields of their own, so that a description can also be         *)
(* malformed.                                                              *)

RECURSIVE EncBE(_, _)
EncBE(v, n) == IF n = 0 THEN <<>> ELSE Append(EncBE(v \div 256, n - 1), v % 256)

RECURSIVE Concat(_)
Concat(seqs) == IF seqs = <<>> THEN <<>> ELSE Head(seqs) \o Concat(Tail(seqs))

SeqsUpTo(S, n) == UNION {[1..k -> S] : k \in 0..n}

EncCStr(name) == name \o <<0>>

EncTupleData(d) ==
    IF d.tag = TUPLE_DATA_TEXT_TAG
    THEN <<d.tag>> \o EncBE(d.len, 4) \o d.data
    ELSE <<d.tag>>

EncTuple(t) ==
    EncBE(t.count, 2) \o Concat([i \in 1..Len(t.items) |-> EncTupleData(t.items[i])])

EncColumn(c) ==
    EncBE(c.flags, 1) \o EncCStr(c.name) \o EncBE(c.type_id, 4)
        \o EncBE(c.type_modifier, 4)

EncPart(p) == <<p.tag>> \o EncTuple(p.tuple)

EncBody(w) ==
    CASE w.type = "Begin" ->
           EncBE(w.final_lsn, 8) \o EncBE(w.timestamp, 8) \o EncBE(w.xid, 4)
      [] w.type = "Commit" ->
           EncBE(w.flags, 1) \o EncBE(w.commit_lsn, 8) \o EncBE(w.end_lsn, 8)
               \o EncBE(w.timestamp, 8)
      [] w.type = "Origin" -> EncBE(w.commit_lsn, 8) \o EncCStr(w.name)
      [] w.type = "Relation" ->
           EncBE(w.rel_id, 4) \o EncCStr(w.namespace) \o EncCStr(w.name)
               \o <<w.replica_identity>> \o EncBE(w.count, 2)
               \o Concat([i \in 1..Len(w.columns) |-> EncColumn(w.columns[i])])
      [] w.type = "Type" ->
           EncBE(w.id, 4) \o EncCStr(w.namespace) \o EncCStr(w.name)
      [] w.type \in {"Insert", "Update", "Delete"} ->
           EncBE(w.rel_id, 4)
               \o Concat([i \in 1..Len(w.parts) |-> EncPart(w.parts[i])])
      [] w.type = "Truncate" ->
           EncBE(w.count, 4) \o EncBE(w.options, 1)
               \o Concat([i \in 1..Len(w.rel_ids) |-> EncBE(w.rel_ids[i], 4)])

Encode(w) == <<w.tag>> \o EncBody(w)

TagTable ==
    [Begin |-> BEGIN_TAG, Commit |-> COMMIT_TAG, Origin |-> ORIGIN_TAG,
     Relation |-> RELATION_TAG, Type |-> TYPE_TAG, Insert |-> INSERT_TAG,
     Update |-> UPDATE_TAG, Delete |-> DELETE_TAG, Truncate |-> TRUNCATE_TAG]

TopTags == {TagTable[t] : t \in DOMAIN TagTable}

TypeOfTag(b) == CHOOSE t \in DOMAIN TagTable : TagTable[t] = b

----------------------------------------------------------------------------
(* The field values the payloads are built from *)

LsnVals == {1, 258}
TimestampVals == {2, -1}
XidVals == {3, -2}
FlagVals == {0, -1}
RelIdVals == {1, 258}
OptionVals == {0, 3}
Names == {<<>>, <<97>>, <<195, 169>>, <<255>>}
RelNames == {<<>>, <<112, 117>>}
UnknownTags == (0..255) \ TopTags
IdentityTags == {REPLICA_IDENTITY_DEFAULT_TAG, REPLICA_IDENTITY_NOTHING_TAG,
                 REPLICA_IDENTITY_FULL_TAG, REPLICA_IDENTITY_INDEX_TAG, 120}
TrailBytes == {0, 78}

TextWire(len, data) == [tag |-> TUPLE_DATA_TEXT_TAG, len |-> len, data |-> data]
PlainWire(tag) == [tag |-> tag, len |-> 0, data |-> <<>>]

TupleDataWires ==
    {PlainWire(TUPLE_DATA_NULL_TAG), PlainWire(TUPLE_DATA_TOAST_TAG),
     PlainWire(120),
     TextWire(0, <<>>), TextWire(1, <<102>>),
     TextWire(-1, <<102>>), TextWire(2, <<102>>)}

TupleWires ==
    {[count |-> c, items |-> it] :
        c \in -1..MaxCols, it \in SeqsUpTo(TupleDataWires, MaxCols)}

SmallTuples ==
    {[count |-> 0, items |-> <<>>],
     [count |-> 1, items |-> <<TextWire(1, <<102>>)>>]}

ColumnWires ==
    {[flags |-> 1, name |-> <<105, 100>>, type_id |-> 23, type_modifier |-> -1],
     [flags |-> 0, name |-> <<>>, type_id |-> 25, type_modifier |-> 260]}

Part(tag, tuple) == [tag |-> tag, tuple |-> tuple]

BeginWires ==
    {[type |-> "Begin", tag |-> BEGIN_TAG, final_lsn |-> l, timestamp |-> t,
      xid |-> x] : l \in LsnVals, t \in TimestampVals, x \in XidVals}

CommitWires ==
    {[type |-> "Commit", tag |-> COMMIT_TAG, flags |-> f, commit_lsn |-> l,
      end_lsn |-> l + 7, timestamp |-> t] :
        f \in FlagVals, l \in LsnVals, t \in TimestampVals}

OriginWires ==
    {[type |-> "Origin", tag |-> ORIGIN_TAG, commit_lsn |-> l, name |-> n] :
        l \in LsnVals, n \in Names}

TypeWires ==
    {[type |-> "Type", tag |-> TYPE_TAG, id |-> 258, namespace |-> ns,
      name |-> n] : ns \in Names, n \in Names}

RelationWires ==
    {[type |-> "Relation", tag |-> RELATION_TAG, rel_id |-> 258,
      namespace |-> ns, name |-> n, replica_identity |-> ri, count |-> c,
      columns |-> cols] :
        ns \in RelNames, n \in RelNames, ri \in IdentityTags,
        c \in -1..MaxCols, cols \in SeqsUpTo(ColumnWires, MaxCols)}

RowWire(type, parts) ==
    [type |-> type, tag |-> TagTable[type], rel_id |-> 258, parts |-> parts]

InsertWires ==
    {RowWire("Insert", <<Part(TUPLE_NEW_TAG, t)>>) : t \in TupleWires}
    \cup {RowWire("Insert", <<Part(b, t)>>) :
            b \in {TUPLE_KEY_TAG, TUPLE_OLD_TAG, 90}, t \in SmallTuples}

UpdateWires ==
    {RowWire("Update", <<Part(TUPLE_NEW_TAG, t)>>) : t \in TupleWires}
    \cup {RowWire("Update", <<Part(b, t)>>) :
            b \in {TUPLE_OLD_TAG, TUPLE_KEY_TAG, 90}, t \in SmallTuples}
    \cup {RowWire("Update", <<Part(b, t), Part(b2, t2)>>) :
            b \in {TUPLE_OLD_TAG, TUPLE_KEY_TAG}, t \in TupleWires,
            b2 \in {TUPLE_NEW_TAG, TUPLE_KEY_TAG}, t2 \in SmallTuples}
    \cup {RowWire("Update", <<Part(b, t), Part(TUPLE_NEW_TAG, t2)>>) :
            b \in {TUPLE_OLD_TAG, TUPLE_KEY_TAG}, t \in SmallTuples,
            t2 \in TupleWires}

DeleteWires ==
    {RowWire("Delete", <<Part(b, t)>>) :
        b \in {TUPLE_OLD_TAG, TUPLE_KEY_TAG}, t \in TupleWires}
    \cup {RowWire("Delete", <<Part(b, t)>>) :
            b \in {TUPLE_NEW_TAG, 90}, t \in SmallTuples}
    \cup {RowWire("Delete", <<Part(b, t), Part(TUPLE_NEW_TAG, t2)>>) :
            b \in {TUPLE_OLD_TAG, TUPLE_KEY_TAG}, t \in SmallTuples,
            t2 \in SmallTuples}

TruncateWires ==
    {[type |-> "Truncate", tag |-> TRUNCATE_TAG, count |-> c, options |-> o,
      rel_ids |-> ids] :
        c \in -1..MaxRelIds, o \in OptionVals,
        ids \in SeqsUpTo(RelIdVals, MaxRelIds)}

TaggedWires ==
    BeginWires \cup CommitWires \cup OriginWires \cup TypeWires
        \cup RelationWires \cup InsertWires \cup UpdateWires \cup DeleteWires
        \cup TruncateWires

\* a layout behind a first byte that is not in the tag table
UnknownTagWires ==
    {[w EXCEPT !.tag = b] :
        w \in BeginWires \cup OriginWires \cup
              {RowWire("Insert", <<Part(TUPLE_NEW_TAG, t)>>) : t \in SmallTuples},
        b \in UnknownTags}

Wires == TaggedWires \cup UnknownTagWires

----------------------------------------------------------------------------
(* Well-formed descriptions and the structured value each one stands for   *)

WFTupleData(d) ==
    \/ d.tag \in {TUPLE_DATA_NULL_TAG, TUPLE_DATA_TOAST_TAG}
    \/ d.tag = TUPLE_DATA_TEXT_TAG /\ d.len = Len(d.data)

WFTuple(t) ==
    /\ t.count = Len(t.items)
    /\ \A i \in 1..Len(t.items) : WFTupleData(t.items[i])

PartTags(w) == [i \in 1..Len(w.parts) |-> w.parts[i].tag]

WellFormed(w) ==
    /\ w.tag = TagTable[w.type]
    /\ CASE w.type = "Relation" ->
              /\ w.count = Len(w.columns)
              /\ ReplicaIdentityOf(w.replica_identity) # "unknown"
         [] w.type = "Truncate" -> w.count = Len(w.rel_ids)
         [] w.type = "Insert" ->
              /\ PartTags(w) = <<TUPLE_NEW_TAG>>
              /\ WFTuple(w.parts[1].tuple)
         [] w.type = "Update" ->
              /\ PartTags(w) \in {<<TUPLE_NEW_TAG>>,
                                  <<TUPLE_OLD_TAG, TUPLE_NEW_TAG>>,
                                  <<TUPLE_KEY_TAG, TUPLE_NEW_TAG>>}
              /\ \A i \in 1..Len(w.parts) : WFTuple(w.parts[i].tuple)
         [] w.type = "Delete" ->
              /\ PartTags(w) \in {<<TUPLE_OLD_TAG>>, <<TUPLE_KEY_TAG>>}
              /\ WFTuple(w.parts[1].tuple)
         [] OTHER -> TRUE

\* the value a field of the layout table stands for: a cstring field is the
\* view up to and including its terminator, a length-prefixed field the
\* bytes after the prefix
ValueOfTupleData(d) ==
    IF d.tag = TUPLE_DATA_NULL_TAG THEN [kind |-> "Null", data |-> <<>>]
    ELSE IF d.tag = TUPLE_DATA_TOAST_TAG THEN [kind |-> "Toast", data |-> <<>>]
    ELSE [kind |-> "Text", data |-> d.data]

ValueOfTuple(t) == [i \in 1..Len(t.items) |-> ValueOfTupleData(t.items[i])]

ValueOfColumn(c) ==
    [flags |-> c.flags, name |-> c.name \o <<0>>, type_id |-> c.type_id,
     type_modifier |-> c.type_modifier]

TupleTagged(w, tag) ==
    IF \E i \in 1..Len(w.parts) : w.parts[i].tag = tag
    THEN <<ValueOfTuple(
            w.parts[CHOOSE i \in 1..Len(w.parts) : w.parts[i].tag = tag].tuple)>>
    ELSE <<>>

ValueOf(w) ==
    CASE w.type = "Begin" ->
           [type |-> "Begin", final_lsn |-> w.final_lsn,
            timestamp |-> w.timestamp, xid |-> w.xid]
      [] w.type = "Commit" ->
           [type |-> "Commit", flags |-> w.flags, commit_lsn |-> w.commit_lsn,
            end_lsn |-> w.end_lsn, timestamp |-> w.timestamp]
      [] w.type = "Origin" ->
           [type |-> "Origin", commit_lsn |-> w.commit_lsn,
            name |-> w.name \o <<0>>]
      [] w.type = "Relation" ->
           [type |-> "Relation", rel_id |-> w.rel_id,
            namespace |-> w.namespace \o <<0>>, name |-> w.name \o <<0>>,
            replica_identity |->
               CASE w.replica_identity = 100 -> "Default"
                 [] w.replica_identity = 110 -> "Nothing"
                 [] w.replica_identity = 102 -> "Full"
                 [] w.replica_identity = 105 -> "Index",
            columns |-> [i \in 1..Len(w.columns) |-> ValueOfColumn(w.columns[i])]]
      [] w.type = "Type" ->
           [type |-> "Type", id |-> w.id, namespace |-> w.namespace \o <<0>>,
            name |-> w.name \o <<0>>]
      [] w.type = "Insert" ->
           [type |-> "Insert", rel_id |-> w.rel_id,
            tuple |-> ValueOfTuple(w.parts[1].tuple)]
      [] w.type = "Update" ->
           [type |-> "Update", rel_id |-> w.rel_id,
            key_tuple |-> TupleTagged(w, TUPLE_KEY_TAG),
            old_tuple |-> TupleTagged(w, TUPLE_OLD_TAG),
            new_tuple |-> TupleTagged(w, TUPLE_NEW_TAG)[1]]
      [] w.type = "Delete" ->
           [type |-> "Delete", rel_id |-> w.rel_id,
            key_tuple |-> TupleTagged(w, TUPLE_KEY_TAG),
            old_tuple |-> TupleTagged(w, TUPLE_OLD_TAG)]
      [] w.type = "Truncate" ->
           [type |-> "Truncate", options |-> w.options, rel_ids |-> w.rel_ids]

----------------------------------------------------------------------------
(* The decoder as a state machine: one payload is given, one decode call   *)
(* is made on it, and the accessors are called on the message it returned. *)

NoResult == [st |-> "None", msg |-> NoMsg, rest |-> <<>>, tag |-> -1, text |-> ""]
NoAccess == [field |-> "none", index |-> 0, st |-> "None", text |-> <<>>]
NoPlugin == [publications |-> <<>>]

PluginIdle ==
    /\ names = <<>>
    /\ plugin = NoPlugin
    /\ last_name = <<>>
    /\ last_options = [proto_version |-> <<>>, publication_names |-> <<>>]
    /\ calls = 0

DecoderIdle ==
    /\ wire = [type |-> "None", tag |-> 0]
    /\ cut = 0
    /\ trail = <<>>
    /\ payload = <<>>
    /\ pc = "idle"
    /\ result = NoResult
    /\ accessed = NoAccess

\* the payload is a hand-built byte sequence, either whole and followed by
\* trailing bytes, or (a well-formed one) truncated before its end
Init ==
    /\ wire \in Wires
    /\ \/ /\ cut = Len(Encode(wire))
          /\ trail \in SeqsUpTo(TrailBytes, MaxTrail)
       \/ /\ WellFormed(wire)
          /\ cut \in 0..(Len(Encode(wire)) - 1)
          /\ trail = <<>>
    /\ payload = SubSeq(Encode(wire), 1, cut) \o trail
    /\ pc = "ready"
    /\ result = NoResult
    /\ accessed = NoAccess
    /\ PluginIdle

\* what the caller has after the call: the io::Result and the reader
Returns(r) ==
    [st |-> r.st, msg |-> r.val, rest |-> r.rest, tag |-> r.tag, text |-> r.text]

\* LogicalReplicationMessage::parse_reader(&mut reader over payload)
Decode ==
    /\ pc = "ready"
    /\ result' = Returns(parse_reader(payload))
    /\ pc' = "done"
    /\ UNCHANGED <<wire, cut, trail, payload, accessed>>
    /\ UNCHANGED pluginVars

\* the Bytes fields of a message that a string accessor reads
StringFields(m) ==
    CASE m.type = "Origin" -> {[field |-> "name", index |-> 0]}
      [] m.type = "Type" ->
           {[field |-> "name", index |-> 0], [field |-> "namespace", index |-> 0]}
      [] m.type = "Relation" ->
           {[field |-> "name", index |-> 0], [field |-> "namespace", index |-> 0]}
           \cup {[field |-> "column", index |-> i] : i \in 1..Len(m.columns)}
      [] OTHER -> {}

FieldBytes(m, f) ==
    IF f.field = "name" THEN m.name
    ELSE IF f.field = "namespace" THEN m.namespace
    ELSE m.columns[f.index].name

Accessed(f, r) ==
    [field |-> f.field, index |-> f.index, st |-> r.st,
     text |-> IF r.st = "Ok" THEN r.val ELSE <<>>]

\* OriginBody::name, RelationBody::namespace/name, TypeBody::namespace/name,
\* Column::name
Access ==
    /\ pc = "done"
    /\ result.st = "Ok"
    /\ \E f \in StringFields(result.msg) :
          accessed' = Accessed(f, get_str(FieldBytes(result.msg, f)))
    /\ UNCHANGED <<wire, cut, trail, payload, pc, result>>
    /\ UNCHANGED pluginVars

Next == Decode \/ Access

Spec == Init /\ [][Next]_vars

----------------------------------------------------------------------------
(* The plugin configuration as a state machine: constructed once from a    *)
(* list of publication names, then name() and options() are called.        *)

NameChars == {"a", "b", ","}
PublicationNames == SeqsUpTo(NameChars, MaxNames)

InitPlugin ==
    /\ names \in SeqsUpTo(PublicationNames, MaxNames)
    /\ plugin = PgOutput_new(names)
    /\ last_name = <<>>
    /\ last_options = [proto_version |-> <<>>, publication_names |-> <<>>]
    /\ calls = 0
    /\ DecoderIdle

CallName ==
    /\ calls < MaxCalls
    /\ last_name' = PgOutput_name(plugin)
    /\ calls' = calls + 1
    /\ UNCHANGED <<names, plugin, last_options>>
    /\ UNCHANGED decoderVars

CallOptions ==
    /\ calls < MaxCalls
    /\ last_options' = PgOutput_options(plugin)
    /\ calls' = calls + 1
    /\ UNCHANGED <<names, plugin, last_name>>
    /\ UNCHANGED decoderVars

NextPlugin == CallName \/ CallOptions

SpecPlugin == InitPlugin /\ [][NextPlugin]_vars

----------------------------------------------------------------------------
(* Properties *)

Decoded == pc \in {"done"}
Whole == cut = Len(Encode(wire))
Truncated == WellFormed(wire) /\ cut < Len(Encode(wire)) /\ trail = <<>>
Returned == result.st \in {"Ok", "InvalidInput", "UnexpectedEof"}
RowTypes == {"Insert", "Update", "Delete"}

FirstTupleTags(type) ==
    IF type = "Insert" THEN {TUPLE_NEW_TAG}
    ELSE IF type = "Update" THEN {TUPLE_NEW_TAG, TUPLE_OLD_TAG, TUPLE_KEY_TAG}
    ELSE {TUPLE_OLD_TAG, TUPLE_KEY_TAG}

\* the decoder gets to element j of the tuple, a `t` with a negative length
NegativeLengthAt(t, j) ==
    /\ j <= t.count
    /\ \A i \in 1..(j - 1) : WFTupleData(t.items[i])
    /\ t.items[j].tag = TUPLE_DATA_TEXT_TAG
    /\ t.items[j].len < 0

NegativeLengthCase ==
    /\ wire.type \in RowTypes
    /\ wire.tag = TagTable[wire.type]
    /\ Whole
    /\ wire.parts[1].tag \in FirstTupleTags(wire.type)
    /\ \E j \in 1..Len(wire.parts[1].tuple.items) :
          NegativeLengthAt(wire.parts[1].tuple, j)

\* C1: decoding a `t` TupleData whose length prefix is negative ends with
\* InvalidInput, in Insert, Update and Delete, whatever follows the length.
C1_NegativeLengthInvalidInput ==
    (Decoded /\ NegativeLengthCase) => result.st = "InvalidInput"

\* C2: the first k bytes of a well-formed payload, k below its length,
\* decode to UnexpectedEnd.
C2_TruncationUnexpectedEnd ==
    (Decoded /\ Truncated) => result.st = "UnexpectedEof"

\* the fields of each body of the data model
FieldsOf(type) ==
    CASE type = "Begin" -> {"type", "final_lsn", "timestamp", "xid"}
      [] type = "Commit" -> {"type", "flags", "commit_lsn", "end_lsn", "timestamp"}
      [] type = "Origin" -> {"type", "commit_lsn", "name"}
      [] type = "Relation" ->
           {"type", "rel_id", "namespace", "name", "replica_identity", "columns"}
      [] type = "Type" -> {"type", "id", "namespace", "name"}
      [] type = "Insert" -> {"type", "rel_id", "tuple"}
      [] type = "Update" -> {"type", "rel_id", "key_tuple", "old_tuple", "new_tuple"}
      [] type = "Delete" -> {"type", "rel_id", "key_tuple", "old_tuple"}
      [] type = "Truncate" -> {"type", "options", "rel_ids"}

FullyPopulated(m) == m.type \in DOMAIN TagTable /\ DOMAIN m = FieldsOf(m.type)

\* C3: a decode call ends in a fully populated message, InvalidInput or
\* UnexpectedEnd, never in a panic.
C3_ThreeOutcomes ==
    Decoded =>
      /\ Returned
      /\ result.st = "Ok" => FullyPopulated(result.msg)
      /\ result.st # "Ok" => result.msg = NoMsg

\* the errors each body decoder of the layout table can return
ErrorsOf(type) ==
    {<<"UnexpectedEof", "failed to fill whole buffer">>}
    \cup (IF type \in {"Origin", "Relation", "Type"}
          THEN {<<"UnexpectedEof", "unexpected EOF">>} ELSE {})
    \cup (IF type = "Relation"
          THEN {<<"InvalidInput", "unknown replica identity tag">>} ELSE {})
    \cup (IF type \in {"Insert", "Update"}
          THEN {<<"InvalidInput", "unexpected tuple tag">>} ELSE {})
    \cup (IF type \in {"Update", "Delete"}
          THEN {<<"InvalidInput", "unknown tuple tag">>} ELSE {})
    \cup (IF type \in RowTypes
          THEN {<<"InvalidInput", "unknown replication message tag">>} ELSE {})

\* C4: a first byte outside B, C, O, R, Y, I, U, D, T gives InvalidInput
\* naming that byte with nothing after it read; a first byte in the tag
\* table gives a message, or an error, of the body type of that tag.
C4_TagDispatch ==
    (Decoded /\ payload # <<>>) =>
      IF payload[1] \notin TopTags
      THEN /\ result.st = "InvalidInput"
           /\ result.text = "unknown replication message tag"
           /\ result.tag = payload[1]
           /\ result.rest = Tail(payload)
           /\ result.msg = NoMsg
      ELSE /\ result.st = "Ok" => result.msg.type = TypeOfTag(payload[1])
           /\ result.st \in {"InvalidInput", "UnexpectedEof"} =>
                <<result.st, result.text>> \in ErrorsOf(TypeOfTag(payload[1]))

C4_Witness ==
    /\ Decoded
    /\ Len(payload) > 1
    /\ payload[1] = 90
    /\ result.st = "InvalidInput"
    /\ result.tag = 90

\* the bytes of a row message behind the first tuple, when that tuple is
\* well-formed
AfterFirstTuple == Drop(payload, 6 + Len(EncTuple(wire.parts[1].tuple)))

FirstTupleWhole ==
    /\ wire.type \in RowTypes
    /\ wire.tag = TagTable[wire.type]
    /\ Whole
    /\ WFTuple(wire.parts[1].tuple)

\* C5: a returned Delete has exactly one of old_tuple and key_tuple: `O`
\* gives old_tuple only, `K` key_tuple only, any other tuple tag
\* InvalidInput, and nothing is read behind the old/key tuple.
C5_DeleteExactlyOne ==
    (Decoded /\ Len(payload) >= 6 /\ payload[1] = DELETE_TAG) =>
      /\ result.st = "Ok" =>
           /\ result.msg.type = "Delete"
           /\ Len(result.msg.old_tuple) + Len(result.msg.key_tuple) = 1
           /\ payload[6] = TUPLE_OLD_TAG => Len(result.msg.old_tuple) = 1
           /\ payload[6] = TUPLE_KEY_TAG => Len(result.msg.key_tuple) = 1
      /\ payload[6] \notin {TUPLE_OLD_TAG, TUPLE_KEY_TAG} =>
           result.st = "InvalidInput" /\ result.tag = payload[6]
      /\ (FirstTupleWhole /\ payload[6] \in {TUPLE_OLD_TAG, TUPLE_KEY_TAG}) =>
           result.st = "Ok" /\ result.rest = AfterFirstTuple

C5_Witness ==
    /\ Decoded
    /\ wire.type = "Delete"
    /\ Len(wire.parts) = 2
    /\ result.st = "Ok"
    /\ result.msg.old_tuple = <<>>
    /\ Len(result.msg.key_tuple) = 1
    /\ Len(result.msg.key_tuple[1]) = 1
    /\ result.rest # <<>>

\* C6: a returned Update has a new_tuple and at most one of key_tuple and
\* old_tuple: `N` gives neither, `O` old_tuple only, `K` key_tuple only;
\* behind an `O` or `K` tuple the next byte must be `N`, any other byte
\* there gives InvalidInput.
C6_UpdateAtMostOne ==
    (Decoded /\ Len(payload) >= 6 /\ payload[1] = UPDATE_TAG) =>
      /\ result.st = "Ok" =>
           /\ result.msg.type = "Update"
           /\ "new_tuple" \in DOMAIN result.msg
           /\ Len(result.msg.old_tuple) + Len(result.msg.key_tuple) <= 1
           /\ Len(result.msg.old_tuple) = 1 <=> payload[6] = TUPLE_OLD_TAG
           /\ Len(result.msg.key_tuple) = 1 <=> payload[6] = TUPLE_KEY_TAG
           /\ payload[6] \in {TUPLE_NEW_TAG, TUPLE_OLD_TAG, TUPLE_KEY_TAG}
      /\ (/\ FirstTupleWhole
          /\ payload[6] \in {TUPLE_OLD_TAG, TUPLE_KEY_TAG}
          /\ AfterFirstTuple # <<>>
          /\ Head(AfterFirstTuple) # TUPLE_NEW_TAG) =>
           /\ result.st = "InvalidInput"
           /\ result.tag = Head(AfterFirstTuple)
      /\ (FirstTupleWhole /\ payload[6] = TUPLE_NEW_TAG) =>
           /\ result.st = "Ok"
           /\ result.rest = AfterFirstTuple

C6_Witness ==
    /\ Decoded
    /\ wire.type = "Update"
    /\ Len(wire.parts) = 2
    /\ wire.parts[1].tag = TUPLE_OLD_TAG
    /\ WFTuple(wire.parts[1].tuple)
    /\ Len(wire.parts[1].tuple.items) = 2
    /\ wire.parts[2].tag = TUPLE_KEY_TAG
    /\ result.st = "InvalidInput"
    /\ result.tag = TUPLE_KEY_TAG

\* C7: a payload built in the field order of the layout table decodes to
\* exactly the values it was built from.
C7_LayoutRoundTrip ==
    (Decoded /\ WellFormed(wire) /\ Whole /\ trail = <<>>) =>
      /\ result.st = "Ok"
      /\ result.msg = ValueOf(wire)
      /\ result.rest = <<>>
      /\ accessed.st = "Ok" => accessed.text = FieldBytes(ValueOf(wire), accessed)

C7_Witness ==
    /\ Decoded
    /\ wire.type = "Truncate"
    /\ WellFormed(wire)
    /\ Whole
    /\ wire.options = 3
    /\ wire.rel_ids = <<1, 258>>
    /\ result.msg = [type |-> "Truncate", options |-> 3, rel_ids |-> <<1, 258>>]

\* C8: trailing bytes are ignored: when a payload decodes to a message, the
\* payload followed by any bytes decodes to the same message, and none of
\* the added bytes is read.
C8_TrailingBytesIgnored ==
    (Decoded /\ Whole /\ parse_reader(Encode(wire)).st = "Ok") =>
      /\ result.st = "Ok"
      /\ result.msg = parse_reader(Encode(wire)).val
      /\ result.rest = parse_reader(Encode(wire)).rest \o trail

C8_Witness ==
    /\ Decoded
    /\ Whole
    /\ trail = <<0>>
    /\ wire.type = "Origin"
    /\ result.st = "Ok"
    /\ result.rest = <<0>>

RECURSIVE JoinedWithCommas(_)
JoinedWithCommas(list) ==
    IF Len(list) = 0 THEN <<>>
    ELSE IF Len(list) = 1 THEN list[1]
    ELSE JoinedWithCommas(SubSeq(list, 1, Len(list) - 1)) \o <<",">>
             \o list[Len(list)]

OptionsCalled == last_options.proto_version # <<>>

\* C9: the structured plugin has name "pgoutput"; options() has exactly
\* proto_version -> "1" and publication_names -> the names joined with ","
\* in list order; the calls leave the configuration as constructed.
C9_PluginOptions ==
    /\ plugin.publications = JoinedWithCommas(names)
    /\ last_name # <<>> =>
         last_name = <<"p", "g", "o", "u", "t", "p", "u", "t">>
    /\ OptionsCalled =>
         /\ DOMAIN last_options = {"proto_version", "publication_names"}
         /\ last_options.proto_version = <<"1">>
         /\ last_options.publication_names = JoinedWithCommas(names)

C9_Witness ==
    /\ Len(names) = 2
    /\ names[1] = <<"a">>
    /\ names[2] = <<"b", ",">>
    /\ calls = 2
    /\ last_name # <<>>
    /\ last_options.publication_names = <<"a", ",", "b", ",">>

\* 1-based index of the first zero byte of the payload behind index s, or 0
FirstZeroAfter(s) ==
    IF \E i \in (s + 1)..Len(payload) : payload[i] = 0
    THEN CHOOSE i \in (s + 1)..Len(payload) :
            payload[i] = 0 /\ \A j \in (s + 1)..(i - 1) : payload[j] # 0
    ELSE 0

\* C10: a null-terminated field read at cursor position s fails with
\* UnexpectedEnd when no zero byte is at or behind s; otherwise it is the
\* bytes from s to the first zero byte z, terminator included, and the next
\* field starts at z + 1; the string accessors return text ending in NUL.
C10_CStrIncludesTerminator ==
    /\ (Decoded /\ Len(payload) >= 9 /\ payload[1] = ORIGIN_TAG) =>
         LET z == FirstZeroAfter(9) IN
         IF z = 0 THEN result.st = "UnexpectedEof"
         ELSE /\ result.st = "Ok"
              /\ result.msg.name = SubSeq(payload, 10, z)
              /\ Len(result.msg.name) = z - 10 + 1
              /\ result.rest = Drop(payload, z)
    /\ (Decoded /\ Len(payload) >= 5 /\ payload[1] = TYPE_TAG) =>
         LET z1 == FirstZeroAfter(5)
             z2 == IF z1 = 0 THEN 0 ELSE FirstZeroAfter(z1)
         IN IF z2 = 0 THEN result.st = "UnexpectedEof"
            ELSE /\ result.st = "Ok"
                 /\ result.msg.namespace = SubSeq(payload, 6, z1)
                 /\ result.msg.name = SubSeq(payload, z1 + 1, z2)
                 /\ result.rest = Drop(payload, z2)
    /\ (Decoded /\ result.st = "Ok" /\ result.msg.type = "Relation") =>
         LET z1 == FirstZeroAfter(5)
             z2 == FirstZeroAfter(z1)
         IN /\ result.msg.namespace = SubSeq(payload, 6, z1)
            /\ result.msg.name = SubSeq(payload, z1 + 1, z2)
            /\ result.msg.replica_identity = ReplicaIdentityOf(payload[z2 + 1])
            /\ Len(result.msg.columns) >= 1 =>
                 LET z3 == FirstZeroAfter(z2 + 4) IN
                 /\ result.msg.columns[1].name = SubSeq(payload, z2 + 5, z3)
                 /\ result.msg.columns[1].type_id
                       = Signed(SubSeq(payload, z3 + 1, z3 + 4))
    /\ accessed.st = "Ok" =>
         /\ accessed.text # <<>>
         /\ accessed.text[Len(accessed.text)] = 0
         /\ \A i \in 1..(Len(accessed.text) - 1) : accessed.text[i] # 0
    /\ (accessed.st = "Ok" /\ WellFormed(wire) /\ accessed.field = "name") =>
         accessed.text = wire.name \o <<0>>

C10_Witness ==
    /\ wire.type = "Type"
    /\ wire.namespace = <<>>
    /\ wire.name = <<195, 169>>
    /\ result.st = "Ok"
    /\ result.msg.namespace = <<0>>
    /\ accessed.field = "name"
    /\ accessed.text = <<195, 169, 0>>

====
